---- MODULE Spec2Model ----
(***************************************************************************)
(* FrankenMonitor (server/src/8sleep/frankenMonitor.ts): the polling loop  *)
(* with its start/stop flag and health status, the gesture diff, the      *)
(* alarm snooze and the base-preset gesture handler.                       *)
(*                                                                         *)
(* JavaScript runs one job at a time: code between two awaits is one       *)
(* atomic step.  Every action below is one such step: the return of the    *)
(* awaited call (with its outcome) and all the code up to the next await.  *)
(*                                                                         *)
(* Spec and LiveSpec are start(), stop() and the frankenLoop tasks.  The   *)
(* calls the loop launches without awaiting them have specifications of    *)
(* their own, each from the inputs the call can receive: DiffSpec          *)
(* (processGestures), SnoozeSpec (snoozeAlarm) and BaseSpec (the base      *)
(* branch of processGesture).  A specification holds the variables of the  *)
(* others at their idle values.                                            *)
(*                                                                         *)
(* HistorySpec is Spec with a record of where the newest fetched snapshot  *)
(* is.  BaseLiveSpec is BaseSpec with the event loop's fairness: an        *)
(* awaited call returns and a timer fires.  RoundSpec is one dispatch of   *)
(* the loop (lines 246-248) from any held and fetched snapshot; in         *)
(* DispatchSpec one polling task runs against a device whose tap counters, *)
(* alarms and targets change between polls, and the calls it launches      *)
(* settle.                                                                 *)
(***************************************************************************)
EXTENDS Integers, Sequences, FiniteSets, TLC

\* Number of frankenLoop tasks the model lets start() launch.
MaxLoops == 2

Loops == 1..MaxLoops

(***************************************************************************)
(* Values                                                                  *)
(***************************************************************************)
\* JavaScript's undefined, as the value of a missing tap entry.
Undefined == -1

\* Version.Pod3, the hardware version without gesture support.
Pod3 == "Pod3"

\* GestureSchema.options, in iteration order.
GestureOptions == <<"doubleTap", "tripleTap", "quadTap">>

GestureSet == {GestureOptions[i] : i \in 1..Len(GestureOptions)}

\* A side's `taps` object; `taps` is optional in a device status.
NoTaps == [defined |-> FALSE]

Taps(d, t, q) == [defined |-> TRUE, doubleTap |-> d, tripleTap |-> t, quadTap |-> q]

\* this.deviceStatus before the first fetch (constructor, line 29).
NoStatus == [present |-> FALSE]

DeviceStatus(version, leftTaps, rightTaps) ==
    [present |-> TRUE, coverVersion |-> version,
     left |-> [taps |-> leftTaps], right |-> [taps |-> rightTaps]]

\* What franken.getDeviceStatus(withGestures) may return in the loop model:
\* any hardware version; tap counters only when they were asked for.
GetDeviceStatus(withGestures) ==
    IF withGestures
    THEN {DeviceStatus(v, Taps(0, 0, 0), Taps(0, 0, 0)) : v \in {Pod3, "Pod4"}}
    ELSE {DeviceStatus(v, NoTaps, NoTaps) : v \in {Pod3, "Pod4"}}

\* The errors the awaited calls of the loop reject with (Error instances,
\* named by their message).
ConnectErrors == {"franken unreachable"}
FetchErrors == {"device status failed"}
SettingsErrors == {"settings read failed"}

\* String(error) for an Error instance: "<name>: <message>".
StringOf(error) == "Error: " \o error

(***************************************************************************)
(* State                                                                   *)
(***************************************************************************)
VARIABLES
    isRunning,         \* this.isRunning
    deviceStatus,      \* this.deviceStatus, the held snapshot
    health,            \* serverStatus.status.frankenMonitor: status and message
                       \* (its timestamp, a reading of the clock, is left out)
    pc,                \* per frankenLoop task: the await it is suspended in
    hasGestures,       \* per task: local hasGestures
    waitTime,          \* per task: local waitTime
    nextDeviceStatus,  \* per task: local nextDeviceStatus (line 243)
    err,               \* per task: the caught error / the rejection reason
    newest,            \* history: who has the most recently fetched snapshot
    diffPc,            \* processGestures: whether it was called
    diffNext,          \* processGestures: its argument nextDeviceStatus
    dispatched,        \* processGestures: the processGesture calls it made
    alarmFile,         \* the content of /persistent/alarm.cbr
    snooze,            \* the snoozeAlarm call: its await, arguments and clock
    commands,          \* the executeFunction calls made, in order
    currentBasePreset, \* this.currentBasePreset
    memoryDB,          \* memoryDB.data, with its baseStatus
    handler,           \* per base gesture: its processGesture call
    baseCommands,      \* the trimixBase calls made, in order
    pod,               \* the device: per side its target, alarm and tap counters
    settingsFile,      \* the settings as stored, which settingsDB.read() loads
    settingsData,      \* settingsDB.data: the tap behaviours per side
    gestureCalls       \* the processGesture calls of the dispatch, in order

loopVars == <<isRunning, deviceStatus, health, pc, hasGestures, waitTime,
              nextDeviceStatus, err, newest>>
diffVars == <<diffPc, diffNext, dispatched>>
snoozeVars == <<alarmFile, snooze, commands>>
baseVars == <<currentBasePreset, memoryDB, handler, baseCommands>>

gestureVars == <<pod, settingsFile, settingsData, gestureCalls>>

vars == <<loopVars, diffVars, snoozeVars, baseVars, gestureVars>>

\* A task is alive from its launch until it returns or rejects.
Alive == {"connect0", "probe", "refetch", "wait", "connect", "fetch",
          "settings", "catchwait"}
Ended == {"done", "rejected"}

AliveLoops == {l \in Loops : pc[l] \in Alive}

(***************************************************************************)
(* The gesture diff (lines 200-220)                                        *)
(***************************************************************************)
\* status?.[side].taps?.[gesture]
TapEntry(status, side, gesture) ==
    IF ~status.present THEN Undefined
    ELSE IF ~status[side].taps.defined THEN Undefined
    ELSE status[side].taps[gesture]

\* The body of the for loop of processGesturesForSide from option i on: the
\* processGesture calls made, in order.  processGesture is async: a call
\* returns a promise and never throws into the try of line 201.
RECURSIVE DispatchFrom(_, _, _, _)
DispatchFrom(current, next, side, i) ==
    IF i > Len(GestureOptions) THEN <<>>
    ELSE LET gesture == GestureOptions[i]
             rest == DispatchFrom(current, next, side, i + 1)
         IN  IF TapEntry(next, side, gesture) # TapEntry(current, side, gesture)
             THEN <<(<<side, gesture>>)>> \o rest
             ELSE rest

\* A for loop that returns after its first processGesture call.
processGesturesForSideFirstOnly(current, next, side) ==
    LET all == DispatchFrom(current, next, side, 1)
    IN  IF all = <<>> THEN <<>> ELSE <<all[1]>>

processGesturesForSide(current, next, side) == DispatchFrom(current, next, side, 1)

processGestures(current, next) ==
    IF ~current.present THEN <<>>
    ELSE processGesturesForSide(current, next, "left")
             \o processGesturesForSide(current, next, "right")

\* processGestures applied to a held snapshot and a fetched one.
DiffSnapshots ==
    {DeviceStatus("Pod4", l, r) :
        l \in {NoTaps} \cup {Taps(d, 0, q) : d \in {0, 1}, q \in {Undefined, 0, 1}},
        r \in {NoTaps} \cup {Taps(0, t, 0) : t \in {0, 1, 2}}}

DiffIdle == diffPc = "idle" /\ diffNext = NoStatus /\ dispatched = <<>>

DiffInit ==
    /\ diffPc = "ready"
    /\ deviceStatus \in DiffSnapshots \cup {NoStatus}
    /\ diffNext \in DiffSnapshots
    /\ dispatched = <<>>

\* this.processGestures(nextDeviceStatus), line 246: lines 212-220.
ProcessGestures ==
    /\ diffPc = "ready"
    /\ dispatched' = processGestures(deviceStatus, diffNext)
    /\ diffPc' = "returned"
    /\ UNCHANGED <<diffNext, loopVars, gestureVars, snoozeVars, baseVars>>

(***************************************************************************)
(* snoozeAlarm (lines 52-109)                                              *)
(***************************************************************************)
MIN_SNOOZE_MINUTES == 1
MAX_SNOOZE_MINUTES == 10

\* The largest |minutes| snoozeAlarm is called with in the model.
MaxMinutes == 12

MinutesInputs == (0 - MaxMinutes)..MaxMinutes

\* Date.now() at the call, in milliseconds.
NowInputs == {0, 999, 1000, 61500}

\* What alarmData[side] can be: missing, null, a number, or a record.
AlarmRecord(pl, du, tt, pi) ==
    [kind |-> "object", pl |-> pl, du |-> du, tt |-> tt, pi |-> pi]

SideDatas ==
    {[kind |-> "undefined"], [kind |-> "null"], [kind |-> "number"]}
        \cup {AlarmRecord(pl, 30, 100, pi) : pl \in {20, 80}, pi \in {"double", "rise"}}

\* /persistent/alarm.cbr: unreadable, not CBOR, CBOR null, or a map by side.
AlarmFiles ==
    {[state |-> "unreadable"], [state |-> "undecodable"], [state |-> "null"]}
        \cup {[state |-> "decoded", left |-> l, right |-> r] :
                  l \in SideDatas, r \in SideDatas}

\* !sideData
Falsy(sideData) == sideData.kind \in {"undefined", "null"}

\* typeof sideData
TypeOf(sideData) ==
    CASE sideData.kind = "undefined" -> "undefined"
      [] sideData.kind = "number" -> "number"
      [] sideData.kind \in {"null", "object"} -> "object"

\* Lines 56-67 throw: readFileSync, cbor.decode, the property read on null,
\* or the check of line 65.
ReadThrows(file, side) ==
    \/ file.state \in {"unreadable", "undecodable", "null"}
    \/ Falsy(file[side]) \/ TypeOf(file[side]) # "object"

\* A range check that excludes the two ends of the range.
ValidatedMinutesExclusive(minutes) ==
    IF minutes <= MIN_SNOOZE_MINUTES \/ minutes >= MAX_SNOOZE_MINUTES
    THEN 10
    ELSE minutes

\* Lines 70-77.
ValidatedMinutes(minutes) ==
    IF minutes < MIN_SNOOZE_MINUTES \/ minutes > MAX_SNOOZE_MINUTES
    THEN 10
    ELSE minutes

\* Lines 80-81: Math.floor(Date.now() / 1000) + minutes * 60.
SnoozeTime(now, minutes) == (now \div 1000) + minutes * 60

\* Lines 84-89.
AlarmPayload(sideData, now, minutes) ==
    [pl |-> sideData.pl, du |-> sideData.du,
     tt |-> SnoozeTime(now, ValidatedMinutes(minutes)), pi |-> sideData.pi]

\* cbor.encode(alarmPayload).toString('hex'): the CBOR map, as the list of
\* its key/value items in the order of the object's keys.
HexPayload(payload) ==
    <<(<<"pl", payload.pl>>), (<<"du", payload.du>>),
      (<<"tt", payload.tt>>), (<<"pi", payload.pi>>)>>

\* The map an encoded payload decodes to.
DecodeHex(hex) ==
    [k \in {hex[i][1] : i \in 1..Len(hex)} |->
        LET i == CHOOSE j \in 1..Len(hex) : hex[j][1] = k IN hex[i][2]]

\* Lines 93-96.
AlarmCommand(side) == IF side = "left" THEN "ALARM_LEFT" ELSE "ALARM_RIGHT"

\* executeFunction(name, arg) is called.
ExecuteFunction(name, arg) == commands' = Append(commands, [name |-> name, arg |-> arg])

NoSnooze == [pc |-> "idle", side |-> "left", minutes |-> 0, now |-> 0]

SnoozeIdle == alarmFile = [state |-> "unreadable"] /\ snooze = NoSnooze /\ commands = <<>>

SnoozeInit ==
    /\ alarmFile \in AlarmFiles
    /\ snooze = NoSnooze
    /\ commands = <<>>

\* A catch that logs and rethrows without the alarm-clear command.
SnoozeCatchRethrows(call) ==
    /\ UNCHANGED commands
    /\ snooze' = [call EXCEPT !.pc = "rejected"]

\* The catch of lines 102-108 up to its await.
SnoozeCatch(call) ==
    /\ ExecuteFunction("ALARM_CLEAR", "empty")
    /\ snooze' = [call EXCEPT !.pc = "clear"]

\* A snoozeAlarm that also stores the re-armed record in the blob before it
\* sends the alarm-set command.
SnoozeAlarmWritesBlob(side, minutes, now) ==
    /\ snooze.pc = "idle"
    /\ LET call == [pc |-> "set", side |-> side, minutes |-> minutes, now |-> now]
       IN  IF ReadThrows(alarmFile, side)
           THEN SnoozeCatch(call) /\ UNCHANGED alarmFile
           ELSE /\ ExecuteFunction(AlarmCommand(side),
                                   HexPayload(AlarmPayload(alarmFile[side], now, minutes)))
                /\ alarmFile' = [alarmFile EXCEPT
                                    ![side].tt = SnoozeTime(now, ValidatedMinutes(minutes))]
                /\ snooze' = call
    /\ UNCHANGED <<loopVars, diffVars, gestureVars, baseVars>>

\* snoozeAlarm(side, minutes) up to its first await: the alarm-set command of
\* line 101, or the alarm-clear command of the catch.
SnoozeAlarm(side, minutes, now) ==
    /\ snooze.pc = "idle"
    /\ LET call == [pc |-> "set", side |-> side, minutes |-> minutes, now |-> now]
       IN  IF ReadThrows(alarmFile, side)
           THEN SnoozeCatch(call)
           ELSE /\ ExecuteFunction(AlarmCommand(side),
                                   HexPayload(AlarmPayload(alarmFile[side], now, minutes)))
                /\ snooze' = call
    /\ UNCHANGED <<alarmFile, loopVars, diffVars, gestureVars, baseVars>>

\* Line 101: the alarm-set command returns, or fails into the catch.
AlarmSetReturns ==
    /\ snooze.pc = "set"
    /\ \/ /\ snooze' = [snooze EXCEPT !.pc = "done"]
          /\ UNCHANGED commands
       \/ SnoozeCatch(snooze)
    /\ UNCHANGED <<alarmFile, loopVars, diffVars, gestureVars, baseVars>>

\* Line 107: the alarm-clear command returns, or its failure rejects
\* snoozeAlarm.
AlarmClearReturns ==
    /\ snooze.pc = "clear"
    /\ \E outcome \in {"done", "rejected"} : snooze' = [snooze EXCEPT !.pc = outcome]
    /\ UNCHANGED <<alarmFile, commands, loopVars, diffVars, gestureVars, baseVars>>

(***************************************************************************)
(* processGesture, base behaviour (lines 129-197)                          *)
(***************************************************************************)
\* Number of base gestures dispatched in the model.
MaxGestures == 2

BaseGestures == 1..MaxGestures

\* BASE_PRESETS (basePresets.js): the two presets the gesture cycles between.
BASE_PRESETS ==
    [flat |-> [head |-> 0, feet |-> 0, feedRate |-> 50],
     relax |-> [head |-> 30, feet |-> 15, feedRate |-> 50]]

\* Lines 131-132 and 194-195.
Toggle(preset) == IF preset = "relax" THEN "flat" ELSE "relax"

Abs(x) == IF x < 0 THEN 0 - x ELSE x

Max3(a, b, c) ==
    IF a >= b /\ a >= c THEN a ELSE IF b >= c THEN b ELSE c

NoBaseStatus == [present |-> FALSE]

\* memoryDB.data?.baseStatus is there.
HasBaseStatus(db) == db.data /\ db.baseStatus.present

\* A processGesture call not made yet.  Beside its position and its locals
\* (target, estimatedTime) a call keeps what is needed to speak about it: the
\* preset and the base position recorded when it was made, whether it entered
\* its catch, and the rank of its setTimeout call among those made.
NoHandler ==
    [pc |-> "idle", target |-> "relax", before |-> "relax", failed |-> FALSE,
     estimatedTime |-> 0, recorded |-> FALSE, headBefore |-> 0, feetBefore |-> 0,
     seq |-> 0]

BaseIdle ==
    /\ currentBasePreset = "relax"
    /\ memoryDB = [data |-> FALSE]
    /\ handler = [g \in BaseGestures |-> NoHandler]
    /\ baseCommands = <<>>

\* A base status at rest, as the rest of the server records it.
BaseStatusAt(head, feet) ==
    [present |-> TRUE, head |-> head, feet |-> feet, isMoving |-> FALSE,
     isConfigured |-> FALSE]

\* The monitor after construction (line 25); memoryDB not loaded, loaded
\* without a base status, or loaded with one.
BaseInit ==
    /\ currentBasePreset = "relax"
    /\ memoryDB \in {[data |-> FALSE],
                     [data |-> TRUE, baseStatus |-> NoBaseStatus],
                     [data |-> TRUE, baseStatus |-> BaseStatusAt(0, 0)],
                     [data |-> TRUE, baseStatus |-> BaseStatusAt(10, 1)],
                     [data |-> TRUE, baseStatus |-> BaseStatusAt(20, 1)]}
    /\ handler = [g \in BaseGestures |-> NoHandler]
    /\ baseCommands = <<>>

\* Lines 155-163: the movement command is chosen by this.currentBasePreset as
\* it is when the line runs, and carries the preset looked up at line 134.
MoveCommand(g, preset, target) ==
    IF preset = "flat"
    THEN [by |-> g, name |-> "goToFlat"]
    ELSE [by |-> g, name |-> "setPosition", head |-> BASE_PRESETS[target].head,
          feet |-> BASE_PRESETS[target].feet,
          feedRate |-> BASE_PRESETS[target].feedRate]

\* Lines 166-171.
EstimatedTime(db, target) ==
    LET head == IF HasBaseStatus(db) THEN db.baseStatus.head ELSE 0
        feet == IF HasBaseStatus(db) THEN db.baseStatus.feet ELSE 0
    IN  Max3(Abs(head - BASE_PRESETS[target].head) * 200,
             Abs(feet - BASE_PRESETS[target].feet) * 200,
             3000)

\* processGesture(side, gesture) with a base behaviour, up to its first
\* await: the toggle, the lookup, the optimistic write (lines 131-151) or,
\* without memoryDB.data, the movement command.
BaseGesture(g) ==
    /\ handler[g].pc = "idle"
    /\ \A k \in BaseGestures : k < g => handler[k].pc # "idle"
    /\ LET target == Toggle(currentBasePreset)
           recorded == HasBaseStatus(memoryDB)
           call == [NoHandler EXCEPT
                       !.target = target, !.before = currentBasePreset,
                       !.recorded = recorded,
                       !.headBefore = IF recorded THEN memoryDB.baseStatus.head ELSE 0,
                       !.feetBefore = IF recorded THEN memoryDB.baseStatus.feet ELSE 0]
       IN  /\ currentBasePreset' = target
           /\ IF memoryDB.data
              THEN /\ memoryDB' = [memoryDB EXCEPT !.baseStatus =
                                      [present |-> TRUE,
                                       head |-> BASE_PRESETS[target].head,
                                       feet |-> BASE_PRESETS[target].feet,
                                       isMoving |-> TRUE, isConfigured |-> TRUE]]
                   /\ handler' = [handler EXCEPT ![g] = [call EXCEPT !.pc = "write"]]
                   /\ UNCHANGED baseCommands
              ELSE /\ baseCommands' = Append(baseCommands, MoveCommand(g, target, target))
                   /\ handler' = [handler EXCEPT ![g] = [call EXCEPT !.pc = "move"]]
                   /\ UNCHANGED memoryDB
    /\ UNCHANGED <<loopVars, diffVars, gestureVars, snoozeVars>>

\* The catch of lines 182-196 up to its await; without a base status, to its
\* end.
BaseCatch(g) ==
    /\ UNCHANGED baseCommands
    /\ IF HasBaseStatus(memoryDB)
       THEN /\ memoryDB' = [memoryDB EXCEPT !.baseStatus.isMoving = FALSE]
            /\ handler' = [handler EXCEPT ![g].pc = "catchwrite", ![g].failed = TRUE]
            /\ UNCHANGED currentBasePreset
       ELSE /\ currentBasePreset' = Toggle(currentBasePreset)
            /\ handler' = [handler EXCEPT ![g].pc = "reverted", ![g].failed = TRUE]
            /\ UNCHANGED memoryDB

\* Line 151: memoryDB.write() returns and the movement command is called, or
\* the write fails into the catch.
WriteReturns(g) ==
    /\ handler[g].pc = "write"
    /\ \/ /\ baseCommands' =
                Append(baseCommands, MoveCommand(g, currentBasePreset, handler[g].target))
          /\ handler' = [handler EXCEPT ![g].pc = "move"]
          /\ UNCHANGED <<currentBasePreset, memoryDB>>
       \/ BaseCatch(g)
    /\ UNCHANGED <<loopVars, diffVars, gestureVars, snoozeVars>>

\* The setTimeout calls made so far.
TimersSet == Cardinality({k \in BaseGestures : handler[k].pc \in {"scheduled", "completed"}})

\* Lines 156-162: the movement command returns and the completion callback is
\* scheduled (lines 166-181), or the command fails into the catch.
MoveReturns(g) ==
    /\ handler[g].pc = "move"
    /\ \/ /\ handler' = [handler EXCEPT
                            ![g].pc = "scheduled",
                            ![g].estimatedTime = EstimatedTime(memoryDB, handler[g].target),
                            ![g].seq = TimersSet + 1]
          /\ UNCHANGED <<currentBasePreset, memoryDB, baseCommands>>
       \/ BaseCatch(g)
    /\ UNCHANGED <<loopVars, diffVars, gestureVars, snoozeVars>>

\* Line 190: the write of the catch returns and the toggle is reverted
\* (lines 194-195), or it fails and rejects processGesture.
CatchWriteReturns(g) ==
    /\ handler[g].pc = "catchwrite"
    /\ \/ /\ currentBasePreset' = Toggle(currentBasePreset)
          /\ handler' = [handler EXCEPT ![g].pc = "reverted"]
       \/ /\ handler' = [handler EXCEPT ![g].pc = "rejected"]
          /\ UNCHANGED currentBasePreset
    /\ UNCHANGED <<memoryDB, baseCommands, loopVars, diffVars, gestureVars, snoozeVars>>

\* Timers fire in the order of their deadlines: a timer set earlier with a
\* delay that is not longer fires first.
TimerDue(g) ==
    /\ handler[g].pc = "scheduled"
    /\ \A k \in BaseGestures :
          (handler[k].pc = "scheduled" /\ handler[k].seq < handler[g].seq)
              => handler[k].estimatedTime > handler[g].estimatedTime

\* A completion callback that logs and leaves the base status as it is.
TimerFiresNoClear(g) ==
    /\ TimerDue(g)
    /\ handler' = [handler EXCEPT ![g].pc = "completed"]
    /\ UNCHANGED <<memoryDB, currentBasePreset, baseCommands, loopVars, diffVars,
                   gestureVars,
                   snoozeVars>>

\* Lines 173-181: the completion callback runs after estimatedTime.
TimerFires(g) ==
    /\ TimerDue(g)
    /\ memoryDB' = IF HasBaseStatus(memoryDB)
                   THEN [memoryDB EXCEPT !.baseStatus.isMoving = FALSE]
                   ELSE memoryDB
    /\ handler' = [handler EXCEPT ![g].pc = "completed"]
    /\ UNCHANGED <<currentBasePreset, baseCommands, loopVars, diffVars, gestureVars, snoozeVars>>

(***************************************************************************)
(* start / stop (lines 32-50)                                              *)
(***************************************************************************)
\* Where the most recently fetched snapshot is: nowhere before the first
\* fetch, in this.deviceStatus, in the local nextDeviceStatus of a task, or
\* dropped (by a failed iteration, or replaced by an older snapshot).
Nowhere == [in |-> "nowhere", task |-> 0]
InHeld == [in |-> "held", task |-> 0]
InTask(l) == [in |-> "task", task |-> l]
Dropped == [in |-> "dropped", task |-> 0]

\* The monitor after construction (lines 25-30), with no loop launched.
LoopIdle ==
    /\ isRunning = FALSE
    /\ health = [status |-> "not_started", message |-> ""]
    /\ pc = [l \in Loops |-> "idle"]
    /\ hasGestures = [l \in Loops |-> FALSE]
    /\ waitTime = [l \in Loops |-> 0]
    /\ nextDeviceStatus = [l \in Loops |-> NoStatus]
    /\ err = [l \in Loops |-> ""]
    /\ newest = Nowhere

\* The task slot the next frankenLoop() call takes.
FreeLoop(l) == pc[l] = "idle" /\ \A k \in Loops : k < l => pc[k] # "idle"

\* start(): frankenLoop() runs up to its first await, connectFranken().
Start ==
    IF isRunning
    THEN UNCHANGED vars
    ELSE \E l \in Loops :
            /\ FreeLoop(l)
            /\ isRunning' = TRUE
            /\ pc' = [pc EXCEPT ![l] = "connect0"]
            /\ UNCHANGED <<deviceStatus, health, hasGestures, waitTime,
                           nextDeviceStatus, err, newest, diffVars, gestureVars, snoozeVars,
                   baseVars>>

Stop ==
    /\ isRunning' = (IF ~isRunning THEN isRunning ELSE FALSE)
    /\ UNCHANGED <<deviceStatus, health, pc, hasGestures, waitTime,
                   nextDeviceStatus, err, newest, diffVars, gestureVars, snoozeVars,
                   baseVars>>

(***************************************************************************)
(* frankenLoop (lines 223-262)                                             *)
(***************************************************************************)
\* waitTime = hasGestures ? 2_000 : 60_000
Cadence(gestures) == IF gestures THEN 2000 ELSE 60000

\* The tests of both while loops and, when the flag is set, lines 238-240:
\* the cadence is derived from the held snapshot `held` and wait() is called.
\* When the flag is clear the task returns and its locals are gone.
EnterIteration(l, held) ==
    IF isRunning
    THEN /\ hasGestures' = [hasGestures EXCEPT ![l] = (held.coverVersion # Pod3)]
         /\ waitTime' = [waitTime EXCEPT ![l] = Cadence(held.coverVersion # Pod3)]
         /\ pc' = [pc EXCEPT ![l] = "wait"]
    ELSE /\ pc' = [pc EXCEPT ![l] = "done"]
         /\ hasGestures' = [hasGestures EXCEPT ![l] = FALSE]
         /\ waitTime' = [waitTime EXCEPT ![l] = 0]

\* A failure of lines 224-229 rejects frankenLoop(); the handler start()
\* attached (lines 38-43) publishes it.
Rejected(l, error) ==
    /\ pc' = [pc EXCEPT ![l] = "rejected"]
    /\ err' = [err EXCEPT ![l] = error]
    /\ health' = [status |-> "failed", message |-> StringOf(error)]
    /\ hasGestures' = [hasGestures EXCEPT ![l] = FALSE]
    /\ waitTime' = [waitTime EXCEPT ![l] = 0]
    /\ UNCHANGED <<isRunning, deviceStatus, nextDeviceStatus>>

\* A catch that publishes the failure and rethrows it.
CaughtRethrows(l, error) == Rejected(l, error)

\* The catch of lines 253-259: publish, then wait the cadence last derived.
\* The block of the try, with its nextDeviceStatus, is left.
Caught(l, error) ==
    /\ pc' = [pc EXCEPT ![l] = "catchwait"]
    /\ err' = [err EXCEPT ![l] = error]
    /\ health' = [status |-> "failed", message |-> StringOf(error)]
    /\ nextDeviceStatus' = [nextDeviceStatus EXCEPT ![l] = NoStatus]
    /\ UNCHANGED <<isRunning, deviceStatus, hasGestures, waitTime>>

\* Line 224: connectFranken() returns; line 225 calls getDeviceStatus(false).
InitialConnectReturns(l) ==
    /\ pc[l] = "connect0"
    /\ \/ /\ pc' = [pc EXCEPT ![l] = "probe"]
          /\ UNCHANGED <<isRunning, deviceStatus, health, hasGestures, waitTime,
                         nextDeviceStatus, err>>
       \/ \E e \in ConnectErrors : Rejected(l, e)

\* Lines 225-233 and, for a device without gestures, the entry of the loop.
ProbeReturns(l) ==
    /\ pc[l] = "probe"
    /\ \/ \E status \in GetDeviceStatus(FALSE) :
            /\ deviceStatus' = status
            /\ IF status.coverVersion # Pod3
               THEN /\ hasGestures' = [hasGestures EXCEPT ![l] = TRUE]
                    /\ waitTime' = [waitTime EXCEPT ![l] = Cadence(TRUE)]
                    /\ pc' = [pc EXCEPT ![l] = "refetch"]
               ELSE EnterIteration(l, status)
            /\ UNCHANGED <<isRunning, health, nextDeviceStatus, err>>
       \/ \E e \in FetchErrors : Rejected(l, e)

\* Line 229: getDeviceStatus(true) returns; the loop is entered.
RefetchReturns(l) ==
    /\ pc[l] = "refetch"
    /\ \/ \E status \in GetDeviceStatus(TRUE) :
            /\ deviceStatus' = status
            /\ EnterIteration(l, status)
            /\ UNCHANGED <<isRunning, health, nextDeviceStatus, err>>
       \/ \E e \in FetchErrors : Rejected(l, e)

\* The return of wait(waitTime) without the test of line 241.
WaitReturnsNoCheck(l) ==
    /\ pc[l] = "wait"
    /\ pc' = [pc EXCEPT ![l] = "connect"]
    /\ UNCHANGED <<isRunning, deviceStatus, health, hasGestures, waitTime,
                   nextDeviceStatus, err>>

\* Line 240: wait(waitTime) returns; line 241 tests the flag; line 242 calls
\* connectFranken().
WaitReturns(l) ==
    /\ pc[l] = "wait"
    /\ IF ~isRunning
       THEN /\ pc' = [pc EXCEPT ![l] = "done"]
            /\ hasGestures' = [hasGestures EXCEPT ![l] = FALSE]
            /\ waitTime' = [waitTime EXCEPT ![l] = 0]
       ELSE /\ pc' = [pc EXCEPT ![l] = "connect"]
            /\ UNCHANGED <<hasGestures, waitTime>>
    /\ UNCHANGED <<isRunning, deviceStatus, health, nextDeviceStatus, err>>

\* Line 242: connectFranken() returns; line 243 calls getDeviceStatus.
ConnectReturns(l) ==
    /\ pc[l] = "connect"
    /\ \/ /\ pc' = [pc EXCEPT ![l] = "fetch"]
          /\ UNCHANGED <<isRunning, deviceStatus, health, hasGestures, waitTime,
                         nextDeviceStatus, err>>
       \/ \E e \in ConnectErrors : Caught(l, e)

\* Line 243: getDeviceStatus(hasGestures) returns; line 244 calls
\* settingsDB.read().
FetchReturns(l) ==
    /\ pc[l] = "fetch"
    /\ \/ \E status \in GetDeviceStatus(hasGestures[l]) :
            /\ nextDeviceStatus' = [nextDeviceStatus EXCEPT ![l] = status]
            /\ pc' = [pc EXCEPT ![l] = "settings"]
            /\ UNCHANGED <<isRunning, deviceStatus, health, hasGestures,
                           waitTime, err>>
       \/ \E e \in FetchErrors : Caught(l, e)

\* A success that changes the status and leaves the last message.
HealthyStaleMessage == [status |-> "healthy", message |-> health.message]

\* Lines 249-250.
Healthy == [status |-> "healthy", message |-> ""]

\* Line 244: settingsDB.read() returns; lines 245-251 dispatch the gestures,
\* replace the held snapshot and publish; then the next iteration is entered.
\* The handlers line 246 launches (the calls processGestures lists) write none
\* of the loop's variables; they are the subject of DiffSpec and BaseSpec.
SettingsReturns(l) ==
    /\ pc[l] = "settings"
    /\ \/ /\ deviceStatus' = nextDeviceStatus[l]
          /\ health' = Healthy
          /\ EnterIteration(l, nextDeviceStatus[l])
          /\ nextDeviceStatus' = [nextDeviceStatus EXCEPT ![l] = NoStatus]
          /\ UNCHANGED <<isRunning, err>>
       \/ \E e \in SettingsErrors : Caught(l, e)

\* Line 258: the wait of the catch returns and the catch block, with its
\* error, is left; both while tests run again.
CatchWaitReturns(l) ==
    /\ pc[l] = "catchwait"
    /\ EnterIteration(l, deviceStatus)
    /\ err' = [err EXCEPT ![l] = ""]
    /\ UNCHANGED <<isRunning, deviceStatus, health, nextDeviceStatus>>

\* A task resumes from the await it is suspended in.
Resumes(l) ==
    \/ InitialConnectReturns(l)
    \/ ProbeReturns(l)
    \/ RefetchReturns(l)
    \/ WaitReturns(l)
    \/ ConnectReturns(l)
    \/ FetchReturns(l)
    \/ SettingsReturns(l)
    \/ CatchWaitReturns(l)

LoopStep(l) ==
    /\ Resumes(l)
    /\ UNCHANGED <<newest, diffVars, gestureVars, snoozeVars, baseVars>>

\* The same step with the history of the fetches kept: lines 225 and 229
\* fetch into this.deviceStatus, line 243 into the local of the task, line
\* 248 moves the local into this.deviceStatus, the catch drops the local.
HistoryStep(l) ==
    /\ Resumes(l)
    /\ newest' =
          IF pc[l] \in {"probe", "refetch"} /\ pc'[l] # "rejected" THEN InHeld
          ELSE IF pc[l] = "fetch" /\ pc'[l] = "settings" THEN InTask(l)
          ELSE IF pc[l] = "settings" /\ pc'[l] \in {"wait", "done"}
               THEN (IF newest = InTask(l) THEN InHeld
                     ELSE IF newest = InHeld THEN Dropped ELSE newest)
          ELSE IF pc[l] = "settings" /\ pc'[l] = "catchwait" /\ newest = InTask(l)
               THEN Dropped
          ELSE newest
    /\ UNCHANGED <<diffVars, gestureVars, snoozeVars, baseVars>>

(***************************************************************************)
(* The dispatch of an iteration (lines 111-128 and 240-259)                *)
(***************************************************************************)
\* Number of taps the user makes in the model.
MaxTaps == 2

Sides == {"left", "right"}

\* The behaviours of settingsDB.data[side].taps[gesture].
Temperature(change, amount) ==
    [type |-> "temperature", change |-> change, amount |-> amount]

Alarm == [type |-> "alarm"]

Base == [type |-> "base"]

\* The tap behaviours the settings hold, per side and gesture.
SettingsOptions ==
    {[left |-> [doubleTap |-> Temperature("increment", 2), tripleTap |-> Alarm,
                quadTap |-> Base],
      right |-> [doubleTap |-> Temperature("decrement", 2), tripleTap |-> Alarm,
                 quadTap |-> Temperature("increment", 1)]]}

\* One side of the device.
PodSide(target, vibrating, taps) ==
    [targetTemperatureF |-> target, isAlarmVibrating |-> vibrating, taps |-> taps]

\* franken.getDeviceStatus(true) on a device with gesture support.
SnapshotOf(device) ==
    [present |-> TRUE, coverVersion |-> "Pod4", left |-> device.left,
     right |-> device.right]

TapsOn(device, side) ==
    device[side].taps.doubleTap + device[side].taps.tripleTap + device[side].taps.quadTap

\* The frankenLoop task followed in the dispatch.
Poller == 1

\* The request of line 123: { [side]: { targetTemperatureF } }.
UpdateRequest(side, target) == [s \in {side} |-> [targetTemperatureF |-> target]]

NoRequest == <<>>

\* this.snoozeAlarm(side, 10), line 127.
SnoozeCall(side) == [called |-> TRUE, side |-> side, minutes |-> 10]

NoSnoozeCall == [called |-> FALSE, side |-> "left", minutes |-> 0]

\* A processGesture call: its arguments, the behaviour it read, the promise
\* it returned (pending, resolved or rejected), the update request or the
\* snoozeAlarm call it made, and how many iterations ago it was made (0: in
\* the last successful iteration, 1: in the one before, 2: earlier).
Call(side, gesture, behavior, status, request, snoozeCall) ==
    [side |-> side, gesture |-> gesture, behavior |-> behavior, status |-> status,
     request |-> request, snooze |-> snoozeCall, age |-> 0]

\* A temperature branch that adds the amount whatever the direction.
ProcessGestureAlwaysAdds(side, gesture, held, data) ==
    LET behavior == data[side][gesture]
    IN  IF behavior.type = "temperature"
        THEN Call(side, gesture, behavior, "pending",
                  UpdateRequest(side, held[side].targetTemperatureF + behavior.amount),
                  NoSnoozeCall)
        ELSE Call(side, gesture, behavior, "pending", NoRequest, NoSnoozeCall)

\* processGesture(side, gesture) up to its first await or its return (lines
\* 111-129), with this.deviceStatus = held and settingsDB.data = data.
ProcessGesture(side, gesture, held, data) ==
    LET behavior == data[side][gesture]
    IN  CASE behavior.type = "temperature" ->
               LET currentTemperatureTarget == held[side].targetTemperatureF
                   change == behavior.amount
                   newTemperatureTargetF ==
                       IF behavior.change = "increment"
                       THEN currentTemperatureTarget + change
                       ELSE currentTemperatureTarget + ((0 - 1) * change)
               IN  Call(side, gesture, behavior, "pending",
                        UpdateRequest(side, newTemperatureTargetF), NoSnoozeCall)
          [] behavior.type = "alarm" ->
               IF held.present
                     /\ (held.left.isAlarmVibrating \/ held.right.isAlarmVibrating)
               THEN Call(side, gesture, behavior, "pending", NoRequest, SnoozeCall(side))
               ELSE Call(side, gesture, behavior, "resolved", NoRequest, NoSnoozeCall)
          [] behavior.type = "base" ->
               Call(side, gesture, behavior, "pending", NoRequest, NoSnoozeCall)

\* The calls line 246 makes: one processGesture call per differing entry.
Launched(held, next, data) ==
    LET changed == processGestures(held, next)
    IN  [i \in 1..Len(changed) |->
            ProcessGesture(changed[i][1], changed[i][2], held, data)]

\* The calls still spoken of after one more successful iteration: those of
\* the last iteration and those whose promise is pending.
Older(made) ==
    LET kept == SelectSeq(made, LAMBDA c : c.age = 0 \/ c.status = "pending")
    IN  [i \in 1..Len(kept) |->
            [kept[i] EXCEPT !.age = IF kept[i].age < 2 THEN kept[i].age + 1 ELSE 2]]

GestureIdle ==
    /\ pod = [left |-> PodSide(0, FALSE, NoTaps), right |-> PodSide(0, FALSE, NoTaps)]
    /\ settingsFile = <<>>
    /\ settingsData = <<>>
    /\ gestureCalls = <<>>

\* One dispatch round as a function of its inputs: the held snapshot, the
\* fetched one and the settings.
RoundSnapshots ==
    {SnapshotOf([left |-> PodSide(tl, vl, Taps(d, 0, 0)),
                 right |-> PodSide(tr, FALSE, Taps(d2, t, 0))]) :
        tl \in {70, 72}, tr \in {70, 68}, vl \in BOOLEAN,
        d \in {0, 1}, d2 \in {0, 1}, t \in {0, 1}}

RoundSettings ==
    SettingsOptions
        \cup {[left |-> [doubleTap |-> Temperature("decrement", 2), tripleTap |-> Base,
                         quadTap |-> Alarm],
               right |-> [doubleTap |-> Temperature("increment", 2),
                          tripleTap |-> Temperature("decrement", 1),
                          quadTap |-> Alarm]]}

RoundInit ==
    /\ diffPc = "ready"
    /\ deviceStatus \in RoundSnapshots
    /\ diffNext \in RoundSnapshots
    /\ dispatched = <<>>
    /\ settingsFile \in RoundSettings
    /\ settingsData = settingsFile
    /\ gestureCalls = <<>>
    /\ pod = [left |-> PodSide(0, FALSE, NoTaps), right |-> PodSide(0, FALSE, NoTaps)]

\* Lines 246-248 for the fetched snapshot diffNext: the processGesture calls
\* are made against the held snapshot, which is then replaced.
DispatchRound ==
    /\ diffPc = "ready"
    /\ diffPc' = "returned"
    /\ dispatched' = processGestures(deviceStatus, diffNext)
    /\ gestureCalls' = Launched(deviceStatus, diffNext, settingsData)
    /\ deviceStatus' = diffNext
    /\ UNCHANGED <<diffNext, pod, settingsFile, settingsData, isRunning, health, pc,
                   hasGestures, waitTime, nextDeviceStatus, err, newest, snoozeVars,
                   baseVars>>

\* A running monitor whose task has fetched its first snapshot with the tap
\* counters (line 229) and waits for its first iteration.
DispatchInit ==
    /\ pod = [left |-> PodSide(70, FALSE, Taps(0, 0, 0)),
              right |-> PodSide(70, FALSE, Taps(0, 0, 0))]
    /\ settingsFile \in SettingsOptions
    /\ settingsData = settingsFile
    /\ gestureCalls = <<>>
    /\ isRunning = TRUE
    /\ deviceStatus = SnapshotOf(pod)
    /\ health = [status |-> "not_started", message |-> ""]
    /\ pc = [l \in Loops |-> IF l = Poller THEN "wait" ELSE "idle"]
    /\ hasGestures = [l \in Loops |-> l = Poller]
    /\ waitTime = [l \in Loops |-> IF l = Poller THEN Cadence(TRUE) ELSE 0]
    /\ nextDeviceStatus = [l \in Loops |-> NoStatus]
    /\ err = [l \in Loops |-> ""]
    /\ newest = InHeld

\* The user taps a side.
Tap(side, gesture) ==
    /\ TapsOn(pod, "left") + TapsOn(pod, "right") < MaxTaps
    /\ pod' = [pod EXCEPT ![side].taps[gesture] = @ + 1]
    /\ UNCHANGED <<settingsFile, settingsData, gestureCalls, loopVars, diffVars, snoozeVars,
                   baseVars>>

\* The alarm of a side starts or stops vibrating; one side vibrates at a
\* time.
AlarmChanges(side) ==
    /\ \A other \in Sides \ {side} : ~pod[other].isAlarmVibrating
    /\ pod' = [pod EXCEPT ![side].isAlarmVibrating = ~@]
    /\ UNCHANGED <<settingsFile, settingsData, gestureCalls, loopVars, diffVars, snoozeVars,
                   baseVars>>

\* Line 243 on the device followed here: the snapshot is the device's state.
PodFetchReturns(l) ==
    /\ pc[l] = "fetch"
    /\ \/ /\ nextDeviceStatus' = [nextDeviceStatus EXCEPT ![l] = SnapshotOf(pod)]
          /\ pc' = [pc EXCEPT ![l] = "settings"]
          /\ UNCHANGED <<isRunning, deviceStatus, health, hasGestures, waitTime, err>>
       \/ \E e \in FetchErrors : Caught(l, e)
    /\ UNCHANGED <<newest, gestureVars, diffVars, snoozeVars, baseVars>>

\* Line 244: settingsDB.read() returns with the stored settings; lines
\* 245-251: the processGesture calls are made (each runs to its first await),
\* the held snapshot is replaced and the status published; then the next
\* iteration is entered.
DispatchSettingsReturns(l) ==
    /\ pc[l] = "settings"
    /\ \/ /\ settingsData' = settingsFile
          /\ gestureCalls' = IF hasGestures[l]
                      THEN Older(gestureCalls)
                               \o Launched(deviceStatus, nextDeviceStatus[l], settingsFile)
                      ELSE Older(gestureCalls)
          /\ deviceStatus' = nextDeviceStatus[l]
          /\ health' = Healthy
          /\ EnterIteration(l, nextDeviceStatus[l])
          /\ nextDeviceStatus' = [nextDeviceStatus EXCEPT ![l] = NoStatus]
          /\ UNCHANGED <<isRunning, err>>
       \/ /\ \E e \in SettingsErrors : Caught(l, e)
          /\ UNCHANGED <<settingsData, gestureCalls>>
    /\ UNCHANGED <<newest, pod, settingsFile, diffVars, snoozeVars, baseVars>>

\* The call awaited by processGesture call i settles: updateDeviceStatus
\* (line 123; the device has the requested target when it resolves),
\* snoozeAlarm (line 127) or the base branch.  A failure rejects the promise
\* of the call, which line 204 dropped.
CallSettles(i) ==
    /\ gestureCalls[i].status = "pending"
    /\ \/ /\ gestureCalls' = [gestureCalls EXCEPT ![i].status = "resolved"]
          /\ pod' = IF gestureCalls[i].behavior.type = "temperature"
                    THEN [pod EXCEPT ![gestureCalls[i].side].targetTemperatureF =
                              gestureCalls[i].request[gestureCalls[i].side].targetTemperatureF]
                    ELSE pod
       \/ /\ gestureCalls' = [gestureCalls EXCEPT ![i].status = "rejected"]
          /\ UNCHANGED pod
    /\ UNCHANGED <<settingsFile, settingsData, loopVars, diffVars, snoozeVars, baseVars>>

\* The steps of the task that touch neither the device nor the settings.
PollStep(l) ==
    /\ \/ WaitReturns(l)
       \/ ConnectReturns(l)
       \/ CatchWaitReturns(l)
    /\ UNCHANGED <<newest, gestureVars, diffVars, snoozeVars, baseVars>>

Init ==
    /\ deviceStatus = NoStatus
    /\ LoopIdle /\ DiffIdle /\ SnoozeIdle /\ BaseIdle /\ GestureIdle

Next ==
    \/ Start
    \/ Stop
    \/ \E l \in Loops : LoopStep(l)

Spec == Init /\ [][Next]_vars

HistoryNext ==
    \/ Start
    \/ Stop
    \/ \E l \in Loops : HistoryStep(l)

\* Spec with the history of the fetches.
HistorySpec == Init /\ [][HistoryNext]_vars

\* Every wait and every device call eventually returns or fails.
LiveSpec == Spec /\ \A l \in Loops : WF_vars(LoopStep(l))

DiffSpecInit == LoopIdle /\ DiffInit /\ SnoozeIdle /\ BaseIdle /\ GestureIdle

DiffSpec == DiffSpecInit /\ [][ProcessGestures]_vars

SnoozeNext ==
    \/ \E side \in {"left", "right"}, minutes \in MinutesInputs, now \in NowInputs :
          SnoozeAlarm(side, minutes, now)
    \/ AlarmSetReturns
    \/ AlarmClearReturns

SnoozeSpecInit ==
    /\ deviceStatus = NoStatus
    /\ LoopIdle /\ DiffIdle /\ SnoozeInit /\ BaseIdle /\ GestureIdle

SnoozeSpec == SnoozeSpecInit /\ [][SnoozeNext]_vars

BaseNext ==
    \E g \in BaseGestures :
        \/ BaseGesture(g)
        \/ WriteReturns(g)
        \/ MoveReturns(g)
        \/ CatchWriteReturns(g)
        \/ TimerFires(g)

BaseSpecInit ==
    /\ deviceStatus = NoStatus
    /\ LoopIdle /\ DiffIdle /\ SnoozeIdle /\ BaseInit /\ GestureIdle

BaseSpec == BaseSpecInit /\ [][BaseNext]_vars

\* The base gestures of a running monitor that stop() may stop at any time;
\* the loop's tasks are not followed here.
BaseLiveSpecInit ==
    /\ isRunning = TRUE
    /\ deviceStatus = NoStatus
    /\ health = [status |-> "healthy", message |-> ""]
    /\ pc = [l \in Loops |-> "idle"]
    /\ hasGestures = [l \in Loops |-> FALSE]
    /\ waitTime = [l \in Loops |-> 0]
    /\ nextDeviceStatus = [l \in Loops |-> NoStatus]
    /\ err = [l \in Loops |-> ""]
    /\ newest = Nowhere
    /\ DiffIdle /\ SnoozeIdle /\ BaseInit /\ GestureIdle

BaseLiveNext == BaseNext \/ Stop

\* Every memoryDB.write() and every movement command settles and every timer
\* fires; gestures may stop arriving at any time.
BaseLiveSpec ==
    /\ BaseLiveSpecInit /\ [][BaseLiveNext]_vars
    /\ \A g \in BaseGestures :
          /\ WF_vars(WriteReturns(g))
          /\ WF_vars(MoveReturns(g))
          /\ WF_vars(CatchWriteReturns(g))
          /\ WF_vars(TimerFires(g))

DispatchNext ==
    \/ \E side \in Sides, gesture \in GestureSet : Tap(side, gesture)
    \/ \E side \in Sides : AlarmChanges(side)
    \/ PollStep(Poller)
    \/ PodFetchReturns(Poller)
    \/ DispatchSettingsReturns(Poller)
    \/ \E i \in 1..Len(gestureCalls) : CallSettles(i)

DispatchSpecInit == DispatchInit /\ DiffIdle /\ SnoozeIdle /\ BaseIdle

RoundSpecInit == LoopIdle /\ RoundInit /\ SnoozeIdle /\ BaseIdle

RoundSpec == RoundSpecInit /\ [][DispatchRound]_vars

\* One task of a running monitor on a device with gesture support, the
\* user and the alarm.
DispatchSpec == DispatchSpecInit /\ [][DispatchNext]_vars

(***************************************************************************)
(* Properties of the loop                                                  *)
(***************************************************************************)
\* C1: for every interleaving of start() and stop(), at most one frankenLoop
\* task is alive at any time.
C1_AtMostOneLoop == Cardinality(AliveLoops) <= 1

\* C2 as stated: whenever a frankenLoop task ends, by returning or by
\* rejecting, the run flag is clear.
C2_EndsOnlyWhenStopped ==
    [][\A l \in Loops : (pc[l] \in Alive /\ pc'[l] \in Ended) => ~isRunning]_vars

\* C2 as amended: a task returns only when it finds the run flag clear, a
\* failure of an awaited call inside the while loop (connect, fetch, settings
\* refresh) never ends the task, and a task rejects only from the initial
\* connection and probe (lines 224-229), with the failure published.
C2_LoopSurvivesFailures ==
    [][\A l \in Loops :
          /\ (pc[l] \in Alive /\ pc'[l] = "done") => ~isRunning
          /\ (pc[l] \in {"wait", "connect", "fetch", "settings", "catchwait"}
                  => pc'[l] # "rejected")
          /\ (pc[l] \in Alive /\ pc'[l] = "rejected")
                  => /\ pc[l] \in {"connect0", "probe", "refetch"}
                     /\ health'.status = "failed"]_vars

\* A failure was caught inside the loop while the flag was set, and the task
\* went on to its next iteration.
C2_Witness ==
    \E l \in Loops : pc[l] = "catchwait" /\ isRunning /\ health.status = "failed"

AllLoopsEnded == AliveLoops = {}

\* C3: once the flag is clear, every task ends unless start() sets the flag
\* again; a task that finds the flag clear after its cadence wait returns
\* without a further connect or fetch, and stays ended; stop() changes
\* nothing but the flag, and nothing at all when the flag is already clear.
C3_StopEndsLoop ==
    /\ (~isRunning) ~> (isRunning \/ AllLoopsEnded)
    /\ [][\A l \in Loops :
             /\ (pc[l] = "wait" /\ ~isRunning /\ pc'[l] # pc[l]) => pc'[l] = "done"
             /\ (pc[l] \in Ended => pc'[l] = pc[l])]_vars
    /\ [][Stop => /\ UNCHANGED <<deviceStatus, health, pc, hasGestures, waitTime,
                                 nextDeviceStatus, err>>
                  /\ (~isRunning => UNCHANGED vars)
                  /\ ~isRunning']_vars

\* stop() was called while a task was polling, and the task has returned.
C3_Witness ==
    /\ ~isRunning
    /\ \E l \in Loops : pc[l] = "done" /\ deviceStatus.present
    /\ health.status = "healthy"

\* C4: what the monitor publishes is the outcome of the step that wrote it:
\* healthy with an empty message when an iteration completes, failed with
\* String(error) when a failure is caught in the loop or rejects the task;
\* so healthy always comes with the empty message.
C4_HealthIsLastOutcome ==
    /\ [](health.status = "healthy" => health.message = "")
    /\ [](health.status = "failed" => health.message # "")
    /\ [][\A l \in Loops :
             /\ (pc[l] = "settings" /\ pc'[l] \in {"wait", "done"})
                    => health' = [status |-> "healthy", message |-> ""]
             /\ (pc[l] # pc'[l] /\ pc'[l] \in {"catchwait", "rejected"})
                    => health' = [status |-> "failed",
                                  message |-> StringOf(err'[l])]
             /\ (health' # health)
                    => \E k \in Loops :
                          /\ pc[k] # pc'[k]
                          /\ \/ pc[k] = "settings"
                             \/ pc'[k] \in {"catchwait", "rejected"}]_vars

\* A failure was published and a later successful iteration replaced it.
C4_Witness ==
    /\ health = [status |-> "healthy", message |-> ""]
    /\ \E l \in Loops : pc[l] = "rejected"
    /\ \E l \in Loops : pc[l] = "wait"

\* C5: whenever a task starts a wait, at the top of an iteration or in the
\* catch, the wait lasts 60000 if the snapshot the monitor holds reports Pod3
\* and 2000 otherwise.
C5_CadenceFollowsHeldSnapshot ==
    [][\A l \in Loops :
          (pc[l] # pc'[l] /\ pc'[l] \in {"wait", "catchwait"})
              => waitTime'[l] = (IF deviceStatus'.coverVersion = Pod3
                                 THEN 60000 ELSE 2000)]_vars

(***************************************************************************)
(* Properties of the gesture diff                                          *)
(***************************************************************************)
Count(calls, call) == Cardinality({i \in 1..Len(calls) : calls[i] = call})

\* The tap entry of a snapshot for a side and a gesture, Undefined when the
\* side has no taps or no such entry.
EntryOf(status, side, gesture) ==
    IF status[side].taps.defined THEN status[side].taps[gesture] ELSE Undefined

\* C6: processGestures calls processGesture(side, G) exactly once for each
\* side and gesture whose tap entry differs between the held and the next
\* snapshot, makes no other call, and makes none without a held snapshot.
C6_DispatchOncePerChange ==
    diffPc = "returned" =>
        /\ \A side \in {"left", "right"}, gesture \in GestureSet :
              Count(dispatched, <<side, gesture>>) =
                  (IF /\ deviceStatus.present
                      /\ EntryOf(deviceStatus, side, gesture)
                             # EntryOf(diffNext, side, gesture)
                   THEN 1 ELSE 0)
        /\ \A i \in 1..Len(dispatched) :
              dispatched[i][1] \in {"left", "right"} /\ dispatched[i][2] \in GestureSet

\* Two entries of the left side changed, one of them from present to
\* missing, and the right side changed too: three calls.
C6_Witness ==
    /\ diffPc = "returned"
    /\ Len(dispatched) = 3
    /\ Count(dispatched, <<"left", "doubleTap">>) = 1
    /\ Count(dispatched, <<"left", "quadTap">>) = 1
    /\ diffNext.left.taps.defined /\ diffNext.left.taps.quadTap = Undefined

(***************************************************************************)
(* Properties of snoozeAlarm                                               *)
(***************************************************************************)
ClearCount == Cardinality({i \in 1..Len(commands) : commands[i].name = "ALARM_CLEAR"})

SetCount ==
    Cardinality({i \in 1..Len(commands) :
                    commands[i].name \in {"ALARM_LEFT", "ALARM_RIGHT"}})

\* The blob cannot be read or decoded, or holds no record for the side.
BlobUnusable ==
    \/ alarmFile.state # "decoded"
    \/ alarmFile[snooze.side].kind # "object"

\* C7: with an unusable blob exactly one ALARM_CLEAR and no alarm-set command
\* is issued; whenever the catch was entered (also by a failing alarm-set
\* command) exactly one ALARM_CLEAR was issued, last, and it is never
\* repeated, not even when it fails.
C7_FailSafeClear ==
    /\ (snooze.pc # "idle" /\ BlobUnusable) => (SetCount = 0 /\ ClearCount = 1)
    /\ snooze.pc \in {"clear", "rejected"}
          => (ClearCount = 1 /\ commands[Len(commands)].name = "ALARM_CLEAR")
    /\ snooze.pc = "set" => ClearCount = 0
    /\ ClearCount <= 1 /\ SetCount <= 1

\* The side's record is null, the clear command was issued and failed.
C7_Witness ==
    /\ snooze.pc = "rejected"
    /\ alarmFile.state = "decoded" /\ alarmFile[snooze.side].kind = "null"
    /\ Len(commands) = 1

\* C8: with a usable blob the first command is the side's alarm-set command;
\* its payload decodes to exactly pl, du, pi of the stored record and
\* tt = floor(now / 1000) + m * 60, m = minutes inside [1, 10] and 10 outside.
C8_SnoozePayload ==
    (snooze.pc # "idle" /\ ~BlobUnusable) =>
        LET sent == DecodeHex(commands[1].arg)
            stored == alarmFile[snooze.side]
            m == IF 1 <= snooze.minutes /\ snooze.minutes <= 10
                 THEN snooze.minutes ELSE 10
        IN  /\ commands[1].name =
                  (IF snooze.side = "left" THEN "ALARM_LEFT" ELSE "ALARM_RIGHT")
            /\ DOMAIN sent = {"pl", "du", "tt", "pi"}
            /\ sent.pl = stored.pl /\ sent.du = stored.du /\ sent.pi = stored.pi
            /\ sent.tt = (snooze.now \div 1000) + m * 60

\* A right-side snooze of 11 minutes was sent with the default of 10.
C8_Witness ==
    /\ snooze.pc = "done" /\ snooze.side = "right" /\ snooze.minutes = 11
    /\ snooze.now = 61500
    /\ Len(commands) = 1 /\ commands[1].name = "ALARM_RIGHT"
    /\ DecodeHex(commands[1].arg).tt = 661

(***************************************************************************)
(* Properties of the base gesture                                          *)
(***************************************************************************)
\* The movement command was accepted: processGesture returned without
\* entering its catch.
Succeeded(g) == handler[g].pc \in {"scheduled", "completed"}

\* processGesture has finished after entering its catch.
FailedAndFinished(g) == handler[g].failed /\ handler[g].pc \in {"reverted", "rejected"}

CommandsOf(gs, name) ==
    Cardinality({i \in 1..Len(baseCommands) :
                    baseCommands[i].by \in gs /\ baseCommands[i].name = name})

\* C9: two consecutive base gestures that both succeed, with no other
\* gesture dispatched before or after them, leave currentBasePreset at its
\* value before the first and issue exactly one goToFlat and exactly one
\* setPosition command.
C9_PairRestoresPreset ==
    (/\ Succeeded(1) /\ Succeeded(2)
     /\ \A g \in BaseGestures : g > 2 => handler[g].pc = "idle")
        => /\ currentBasePreset = handler[1].before
           /\ CommandsOf({1, 2}, "goToFlat") = 1
           /\ CommandsOf({1, 2}, "setPosition") = 1

\* C10: when a base gesture handled alone has failed (its optimistic write
\* or its movement command) and its handling has finished, the base status
\* is not moving, currentBasePreset is what it was before the gesture, and
\* processGesture has not rejected.
C10_FailureRollsBack ==
    \A g \in BaseGestures :
        (/\ FailedAndFinished(g)
         /\ \A k \in BaseGestures : k # g => handler[k].pc = "idle")
            => /\ HasBaseStatus(memoryDB) => ~memoryDB.baseStatus.isMoving
               /\ currentBasePreset = handler[g].before
               /\ handler[g].pc # "rejected"

\* memoryDB.data.baseStatus.isMoving is set.
IsMoving == HasBaseStatus(memoryDB) /\ memoryDB.baseStatus.isMoving

\* Every processGesture call made has run to its end, timer included.
AllHandled ==
    \A g \in BaseGestures :
        handler[g].pc \in {"idle", "completed", "reverted", "rejected"}

\* C11: whenever isMoving is set in the shared base status it is cleared
\* again later, whatever the number and interleaving of the base gestures,
\* whichever of their calls fail and whenever stop() is called; each
\* gesture that set it later clears it itself, in its completion callback or
\* in its catch, and once every handler has run to its end it is clear.
C11_IsMovingClears ==
    /\ IsMoving ~> ~IsMoving
    /\ [](AllHandled => ~IsMoving)
    /\ [][\A g \in BaseGestures :
             (/\ handler[g].pc \in {"write", "move", "scheduled"}
              /\ handler'[g].pc \in {"completed", "catchwrite", "reverted"}
              /\ HasBaseStatus(memoryDB))
                 => ~memoryDB'.baseStatus.isMoving]_vars

\* After stop(), one gesture has completed by its timer and another by its
\* catch, and the base status is at rest.
C11_Witness ==
    /\ ~isRunning
    /\ \E g \in BaseGestures : handler[g].pc = "completed"
    /\ \E g \in BaseGestures : handler[g].pc = "reverted" /\ handler[g].failed
    /\ HasBaseStatus(memoryDB) /\ memoryDB.baseStatus.isConfigured /\ ~IsMoving

\* C15: the delay of the completion callback of a successful base gesture
\* is max(|head travel| * 200, |feet travel| * 200, 3000), the travel being
\* the difference between the base position recorded before the gesture and
\* the position of the target preset.
C15_DelayFromTravel ==
    \A g \in BaseGestures :
        (Succeeded(g) /\ handler[g].recorded) =>
            LET headTravel == handler[g].headBefore - BASE_PRESETS[handler[g].target].head
                feetTravel == handler[g].feetBefore - BASE_PRESETS[handler[g].target].feet
                head == IF headTravel < 0 THEN 0 - headTravel ELSE headTravel
                feet == IF feetTravel < 0 THEN 0 - feetTravel ELSE feetTravel
                floor == 3000
            IN  /\ handler[g].estimatedTime >= head * 200
                /\ handler[g].estimatedTime >= feet * 200
                /\ handler[g].estimatedTime >= floor
                /\ handler[g].estimatedTime \in {head * 200, feet * 200, floor}

\* The movement commands a gesture issued.
IssuedBy(g) == {i \in 1..Len(baseCommands) : baseCommands[i].by = g}

\* C17: under any interleaving, the movement command of a base gesture is
\* goToFlat exactly when the preset the gesture toggled to and looked up is
\* 'flat', and otherwise setPosition with the head, feet and feed rate of
\* that preset; setPosition never carries the coordinates of 'flat'.
C17_CommandMatchesMode ==
    \A g \in BaseGestures : \A i \in IssuedBy(g) :
        LET command == baseCommands[i]
            looked == handler[g].target
        IN  /\ (command.name = "goToFlat") <=> (looked = "flat")
            /\ command.name = "setPosition" =>
                  /\ command.head = BASE_PRESETS[looked].head
                  /\ command.feet = BASE_PRESETS[looked].feet
                  /\ command.feedRate = BASE_PRESETS[looked].feedRate
                  /\ <<command.head, command.feet>>
                         # <<BASE_PRESETS.flat.head, BASE_PRESETS.flat.feet>>

\* C19: while a movement whose command was accepted has not reached its
\* estimated completion time (its timer has not fired), the shared base
\* status has isMoving set: no callback or catch of another gesture clears
\* it.
C19_MovingUntilOwnCompletion ==
    \A g \in BaseGestures :
        (handler[g].pc = "scheduled" /\ HasBaseStatus(memoryDB)) => IsMoving

\* The snoozeAlarm call sent its alarm-set command and the command returned.
SnoozeSucceeded == snooze.pc = "done" /\ SetCount = 1 /\ ClearCount = 0

\* C20 as stated: after a successful snooze the persisted record of the side
\* carries the new trigger time.
C20_BlobCarriesNewTrigger ==
    SnoozeSucceeded =>
        alarmFile[snooze.side].tt
            = (snooze.now \div 1000)
                + (IF 1 <= snooze.minutes /\ snooze.minutes <= 10
                   THEN snooze.minutes ELSE 10) * 60

\* C20 as amended: snoozeAlarm reads the blob and never writes it; the
\* re-armed record goes to the device in the alarm-set command only, built
\* from the record read, and after a successful snooze the persisted record
\* still carries the trigger time it had.
C20_BlobReadNotWritten ==
    /\ [][alarmFile' = alarmFile]_vars
    /\ [](SnoozeSucceeded =>
            LET sent == DecodeHex(commands[1].arg)
                stored == alarmFile[snooze.side]
            IN  /\ sent.tt # stored.tt
                /\ [sent EXCEPT !.tt = stored.tt]
                      = [pl |-> stored.pl, du |-> stored.du, tt |-> stored.tt,
                         pi |-> stored.pi])

\* A left-side snooze of 5 minutes succeeded: the command carries the new
\* trigger time and the blob the old one.
C20_Witness ==
    /\ SnoozeSucceeded /\ snooze.side = "left" /\ snooze.minutes = 5
    /\ snooze.now = 1000
    /\ DecodeHex(commands[1].arg).tt = 301
    /\ alarmFile.left.tt = 100

(***************************************************************************)
(* Properties of the snapshots compared                                    *)
(***************************************************************************)
\* C18: the diff of an iteration (lines 245-248) compares the snapshot the
\* iteration fetched against a snapshot fetched before it, never against
\* one fetched after it; after a successful iteration the held snapshot is
\* the one that iteration fetched, and a failed iteration leaves the held
\* snapshot as it is.
C18_DiffAgainstPreceding ==
    [][\A l \in Loops :
          /\ (pc[l] = "settings" /\ pc'[l] \in {"wait", "done"})
                 => /\ newest # InHeld
                    /\ deviceStatus' = nextDeviceStatus[l]
          /\ (pc[l] # pc'[l] /\ pc'[l] = "catchwait")
                 => deviceStatus' = deviceStatus]_vars

(***************************************************************************)
(* Properties of the dispatch                                              *)
(***************************************************************************)
\* C12: a temperature gesture on a side requests T + amount for an
\* 'increment' behaviour and T - amount otherwise, T being the target of
\* that side in the snapshot the monitor holds when the call is made, and
\* the request holds that side's targetTemperatureF and nothing else.
C12_TemperatureRequest ==
    [][(diffPc = "ready" /\ diffPc' = "returned") =>
          \A i \in 1..Len(gestureCalls') :
              LET call == gestureCalls'[i]
                  behavior == settingsData[call.side][call.gesture]
                  T == deviceStatus[call.side].targetTemperatureF
              IN  behavior.type = "temperature" =>
                    /\ DOMAIN call.request = {call.side}
                    /\ DOMAIN call.request[call.side] = {"targetTemperatureF"}
                    /\ call.request[call.side].targetTemperatureF =
                          (IF behavior.change = "increment"
                           THEN T + behavior.amount ELSE T - behavior.amount)]_vars

\* Both sides were double-tapped with 70 held on each, while the fetched
\* snapshot already reports other targets: 72 is requested for the left
\* side (increment 2) and 68 for the right (decrement 2).
C12_Witness ==
    /\ diffPc = "returned" /\ Len(gestureCalls) = 2
    /\ gestureCalls[1].side = "left" /\ gestureCalls[1].behavior.type = "temperature"
    /\ gestureCalls[1].request.left.targetTemperatureF = 72
    /\ gestureCalls[2].side = "right" /\ gestureCalls[2].behavior.type = "temperature"
    /\ gestureCalls[2].request.right.targetTemperatureF = 68
    /\ deviceStatus.left.targetTemperatureF = 72
    /\ deviceStatus.right.targetTemperatureF = 68

\* The step in which the task followed completes an iteration: lines 245-251.
Dispatches == pc[Poller] = "settings" /\ pc'[Poller] \in {"wait", "done"}

\* The calls made in the iteration just completed / in the one before.
MadeNow(made) == {i \in 1..Len(made) : made[i].age = 0}

MadeBefore(made) == {i \in 1..Len(made) : made[i].age = 1}

\* C13: when an increment-by-a gesture of a side is detected in two
\* consecutive successful iterations and the snapshot fetched by the second
\* reports the target the first requested (the device applied it), the second
\* request is the first request + a.
C13_RepeatedGesturesShift ==
    [][Dispatches =>
          \A j \in MadeNow(gestureCalls'), i \in MadeBefore(gestureCalls') :
              LET first == gestureCalls'[i]
                  second == gestureCalls'[j]
                  side == first.side
              IN  (/\ first.behavior.type = "temperature"
                   /\ first.behavior.change = "increment"
                   /\ second.behavior = first.behavior
                   /\ second.side = side
                   /\ first.status = "resolved"
                   /\ deviceStatus'[side].targetTemperatureF
                         = first.request[side].targetTemperatureF)
                      => second.request[side].targetTemperatureF
                            = first.request[side].targetTemperatureF
                                + first.behavior.amount]_vars

\* C14: an alarm gesture calls snoozeAlarm (which issues one command: the
\* alarm-set of the side or the alarm-clear) exactly when a side reports a
\* vibrating alarm in the snapshot just fetched, the one the gesture was
\* detected in; the call is for the gesturing side with 10 minutes.
C14_SnoozeIffVibrating ==
    [][Dispatches =>
          \A i \in MadeNow(gestureCalls') :
              LET call == gestureCalls'[i]
                  fetched == nextDeviceStatus[Poller]
              IN  call.behavior.type = "alarm" =>
                    /\ call.snooze.called
                          <=> (fetched.left.isAlarmVibrating
                                 \/ fetched.right.isAlarmVibrating)
                    /\ call.snooze.called
                          => (call.snooze.side = call.side /\ call.snooze.minutes = 10)]_vars

\* C16: no processGesture call ends in a rejected promise that nobody
\* handles; a failing call changes nothing of the published status; an
\* iteration makes a call for every differing entry of both sides, replaces
\* the held snapshot and publishes 'healthy' whatever the calls do.
C16_DispatchFailuresIsolated ==
    /\ [](\A i \in 1..Len(gestureCalls) : gestureCalls[i].status # "rejected")
    /\ [][(\E i \in 1..Len(gestureCalls) : CallSettles(i)) => health' = health]_vars
    /\ [][Dispatches =>
             /\ Cardinality(MadeNow(gestureCalls'))
                   = Len(processGestures(deviceStatus, nextDeviceStatus[Poller]))
             /\ deviceStatus' = nextDeviceStatus[Poller]
             /\ health'.status = "healthy"]_vars
====
